---- MODULE Spec2Model ----
(***************************************************************************)
(* A model of allennlp/steps/step.py: the Step cache-policy resolution of  *)
(* Step.__init__, the two-queue resolver step_graph_from_params, the       *)
(* DirectoryStepCache commit protocol, demand-driven evaluation            *)
(* (Step.result) over a memory or a directory cache, and Step.dry_run.     *)
(*                                                                         *)
(* Each part of the program has its own specification over its own         *)
(* variables; the variables of the other parts stay at their idle values.  *)
(***************************************************************************)
EXTENDS Integers, Sequences, FiniteSets, TLC

VARIABLES
    built,                \* SpecInit: the Step constructions attempted so far
    params,               \* resolver: step name -> the names its params refer to
    is_ref,               \* resolver: step name -> its entry has "type": "ref"
    unparsed_steps,       \* resolver: dict, as the sequence of its keys in insertion order
    next_unparsed_steps,  \* resolver: dict, as the sequence of its keys in insertion order
    parsed_steps,         \* resolver: step name -> resolved Step
    steps_parsed,         \* resolver: steps resolved in the current pass
    rpc,                  \* resolver: "loop" | "returned" | "cycle_error" | "duplicate_error"
    error_names,          \* resolver: the names the ConfigurationError lists
    procs,                \* directory cache: the processes that use the root directory
    location,             \* directory cache: fingerprint -> <root>/<fingerprint>/ exists
    payload,              \* directory cache: fingerprint -> the files format.write left
    temp,                 \* directory cache: fingerprint -> the temporary metadata file
    metadata,             \* directory cache: fingerprint -> metadata.json
    weak,                 \* directory cache: process -> its WeakValueDictionary
    wpc,                  \* directory cache: process -> its position in __setitem__
    cur,                  \* directory cache: process -> the arguments of its __setitem__
    outcome,              \* directory cache: process -> how its last __setitem__ ended
    commits,              \* directory cache: fingerprint -> __setitem__ calls that returned
    kwargs,               \* step graph: Step instance -> the Steps among its kwargs, in order
    step_class,           \* step graph: Step instance -> its class
    cache_results,        \* step graph: Step instance -> its cache_results
    unique_id_cache,      \* step graph: Step instance -> its memoized fingerprint
    cache_kind,           \* evaluation: "memory" or "directory", the cache passed to result
    mem,                  \* evaluation: MemoryStepCache.cache, fingerprint -> value
    stack,                \* evaluation: the active calls of Step.result, innermost last
    runs,                 \* evaluation: Step instance -> invocations of its run
    returned,             \* evaluation: the instances whose result() has returned a value
    temp_dir_for_run,     \* evaluation: Step instance -> "none" | "ephemeral" | "persistent"
    scratch,              \* evaluation: the instances whose TemporaryDirectory exists
    rundir,               \* evaluation: fingerprint -> <root>/<fingerprint>/run exists
    calls,                \* evaluation: top-level calls of result so far
    root,                 \* evaluation: the step of the last top-level call of result
    status,               \* evaluation: how the last top-level call ended
    begun,                \* evaluation: the instances whose run began in this call
    evaluated,            \* evaluation: the instances whose result() returned in this call
    failed,               \* evaluation: the instance whose run raised in this call, or 0
    cached_steps,         \* dry run: the cached_steps argument, a mutable set of steps
    cached_at_entry,      \* dry run: what cached_steps held when the walk began
    walk_root,            \* dry run: the step whose dry_run is walked
    emitted,              \* dry run: the pairs yielded so far
    dstack,               \* dry run: the active generators of dry_run, innermost last
    dstatus,              \* dry run: "walking" | "done"
    kwargs_of_step,       \* dependencies: the kwargs of the Step under test, as its values
    deps_out,             \* dependencies: what dependencies() returned
    replaced_out          \* dependencies: the Steps _replace_steps_with_results replaced

polVars == <<built>>
dirVars == <<procs, location, payload, temp, metadata, weak, wpc, cur, outcome, commits>>
resVars == <<params, is_ref, unparsed_steps, next_unparsed_steps, parsed_steps,
             steps_parsed, rpc, error_names>>
graphVars == <<kwargs, step_class, cache_results, unique_id_cache>>
evalVars == <<cache_kind, mem, stack, runs, returned, temp_dir_for_run, scratch, rundir,
              calls, root, status, begun, evaluated, failed>>
dryVars == <<cached_steps, cached_at_entry, walk_root, emitted, dstack, dstatus>>
depVars == <<kwargs_of_step, deps_out, replaced_out>>
vars == <<polVars, resVars, dirVars, graphVars, evalVars, dryVars, depVars>>
exceptPol == <<resVars, dirVars, graphVars, evalVars, dryVars, depVars>>
exceptRes == <<polVars, dirVars, graphVars, evalVars, dryVars, depVars>>
exceptDir == <<polVars, resVars, graphVars, evalVars, dryVars, depVars>>
exceptEval == <<polVars, resVars, graphVars, dryVars, depVars>>
exceptDry == <<polVars, resVars, dirVars, graphVars, evalVars, depVars>>
exceptDep == <<polVars, resVars, dirVars, graphVars, evalVars, dryVars>>

Range(s) == {s[i] : i \in DOMAIN s}

(***************************************************************************)
(* Bounds of the model.                                                    *)
(***************************************************************************)
MaxBuilt == 2
MaxSteps == 3
MaxFps == 1
MaxValues == 2
MaxNodes == 3
MaxArgs == 2
MaxCalls == 2
MaxDepth == 2
MaxItems == 2

(***************************************************************************)
(* The idle values of each part's variables.                               *)
(***************************************************************************)
PolicyIdle == built = <<>>
ResolverIdle ==
    /\ params = <<>>
    /\ is_ref = <<>>
    /\ unparsed_steps = <<>>
    /\ next_unparsed_steps = <<>>
    /\ parsed_steps = <<>>
    /\ steps_parsed = 0
    /\ rpc = "idle"
    /\ error_names = <<>>

GraphIdle ==
    /\ kwargs = <<>>
    /\ step_class = <<>>
    /\ cache_results = <<>>
    /\ unique_id_cache = <<>>

EvalIdle ==
    /\ cache_kind = "none"
    /\ mem = <<>>
    /\ stack = <<>>
    /\ runs = <<>>
    /\ returned = {}
    /\ temp_dir_for_run = <<>>
    /\ scratch = {}
    /\ rundir = <<>>
    /\ calls = 0
    /\ root = 0
    /\ status = "idle"
    /\ begun = {}
    /\ evaluated = {}
    /\ failed = 0

DepIdle ==
    /\ kwargs_of_step = <<>>
    /\ deps_out = {}
    /\ replaced_out = {}

DryIdle ==
    /\ cached_steps = {}
    /\ cached_at_entry = {}
    /\ walk_root = 0
    /\ emitted = <<>>
    /\ dstack = <<>>
    /\ dstatus = "idle"

DirIdle ==
    /\ procs = {}
    /\ location = <<>>
    /\ payload = <<>>
    /\ temp = <<>>
    /\ metadata = <<>>
    /\ weak = <<>>
    /\ wpc = <<>>
    /\ cur = <<>>
    /\ outcome = <<>>
    /\ commits = <<>>

(***************************************************************************)
(* Step.__init__, lines 198-232: the resolution of cache_results.          *)
(* C is the cache_results argument, D the class's DETERMINISTIC and K the  *)
(* class's CACHEABLE. "unset" is Python's None; "invalid" is any value     *)
(* that is none of True, False, None.                                      *)
(***************************************************************************)
Choices == {"true", "false", "unset", "invalid"}
Cacheables == {"true", "false", "unset"}

\* `not self.CACHEABLE`: None is falsy, like False.
NotCacheable(K) == K # "true"

StepInit(C, D, K) ==
    IF C = "true"
    THEN IF NotCacheable(K)
         THEN [outcome |-> "ConfigurationError", cache_results |-> FALSE, warned |-> FALSE]
         ELSE [outcome |-> "ok", cache_results |-> TRUE, warned |-> ~D]
    ELSE IF C = "false"
    THEN [outcome |-> "ok", cache_results |-> FALSE, warned |-> FALSE]
    ELSE IF C = "unset"
    THEN IF ~D /\ K = "unset"      THEN [outcome |-> "ok", cache_results |-> FALSE, warned |-> FALSE]
         ELSE IF D /\ K = "unset"  THEN [outcome |-> "ok", cache_results |-> TRUE, warned |-> FALSE]
         ELSE IF ~D /\ K = "false" THEN [outcome |-> "ok", cache_results |-> FALSE, warned |-> FALSE]
         ELSE IF D /\ K = "false"  THEN [outcome |-> "ok", cache_results |-> FALSE, warned |-> FALSE]
         ELSE IF ~D /\ K = "true"  THEN [outcome |-> "ok", cache_results |-> TRUE, warned |-> TRUE]
         ELSE IF D /\ K = "true"   THEN [outcome |-> "ok", cache_results |-> TRUE, warned |-> FALSE]
         ELSE [outcome |-> "AssertionError", cache_results |-> FALSE, warned |-> FALSE]
    ELSE [outcome |-> "ConfigurationError", cache_results |-> FALSE, warned |-> FALSE]


\* One construction Step(cache_results = C) of a class with DETERMINISTIC = D, CACHEABLE = K.
NewStep ==
    /\ Len(built) < MaxBuilt
    /\ \E C \in Choices, D \in BOOLEAN, K \in Cacheables :
         built' = Append(built, [C |-> C, D |-> D, K |-> K, r |-> StepInit(C, D, K)])
    /\ UNCHANGED exceptPol

InitPolicy ==
    PolicyIdle /\ ResolverIdle /\ DirIdle /\ GraphIdle /\ EvalIdle /\ DryIdle /\ DepIdle
NextPolicy == NewStep
SpecInit == InitPolicy /\ [][NextPolicy]_vars

(***************************************************************************)
(* C3: cache-policy resolution follows the spec table: construction fails  *)
(* exactly when C = true and K = false; C = true with any other K          *)
(* (unset included) yields cache_results = true; C = false yields false;   *)
(* C = unset yields true exactly when K = true, or K = unset and D = true. *)
(* The code raises for C = true, K = unset as well.                        *)
(***************************************************************************)
C3_PolicyTable ==
    \A i \in DOMAIN built :
        LET b == built[i] IN
        b.C \in {"true", "false", "unset"} =>
            /\ (b.r.outcome # "ok") <=> (b.C = "true" /\ b.K = "false")
            /\ (b.C = "true" /\ b.K # "false") => b.r.cache_results
            /\ (b.C = "false") => ~b.r.cache_results
            /\ (b.C = "unset") =>
                 (b.r.cache_results <=> (b.K = "true" \/ (b.K = "unset" /\ b.D)))

(***************************************************************************)
(* step_graph_from_params, lines 541-586, with Step.from_params.           *)
(*                                                                         *)
(* A configuration maps each step name (1..MaxSteps) to the set of names   *)
(* its parameters refer to (a bare string where a non-string is expected,  *)
(* lines 319-324, or an inline RefStep, lines 326-331; both are looked up  *)
(* in existing_steps). Name 0 is a name that is no key of the              *)
(* configuration. The dicts are kept as the sequences of their keys in     *)
(* insertion order: popitem removes the last one. The input dict is        *)
(* <<1, ..., MaxSteps>>; as the references are arbitrary, every order of   *)
(* every configuration occurs up to a renaming of the steps.               *)
(***************************************************************************)
Names == 1..MaxSteps
Targets == 0..MaxSteps

InputOrder == [i \in 1..MaxSteps |-> i]

\* A resolved Step: its kwargs hold the Steps it was built from; a _RefStep
\* (lines 525-538) holds no Step, only the name it refers to, in ref.
NewStepOf(name, steps) == [name |-> name, kwargs |-> steps, ref |-> {}]
NewRefStep(name, refs) == [name |-> name, kwargs |-> {}, ref |-> refs]
IsRefStep(step) == step.ref # {}

\* Lines 326-331: a _RefStep among the constructed arguments is replaced by
\* existing_steps[ref], once.
CanDeref(existing, step) == IsRefStep(step) => step.ref \subseteq DOMAIN existing
Deref(existing, step) ==
    IF IsRefStep(step) THEN existing[CHOOSE r \in step.ref : TRUE] ELSE step

\* Step.from_params: every reference is replaced by the step in existing_steps;
\* the first reference that is no key of existing_steps raises MissingStepError.
\* An entry of type "ref" constructs the _RefStep itself: its ref parameter is a
\* str and expected as one (line 319), so no lookup happens.
FromParamsNoLookup(name, refs, existing) ==
    [ok |-> TRUE,
     step |-> NewStepOf(name, {existing[r] : r \in refs \cap DOMAIN existing})]

FromParamsUnresolved(name, refs, existing) ==
    [ok |-> TRUE, step |-> NewStepOf(name, {NewStepOf(r, {}) : r \in refs})]

FromParams(name, refs, existing) ==
    IF is_ref[name]
    THEN [ok |-> TRUE, step |-> NewRefStep(name, refs)]
    ELSE IF /\ refs \subseteq DOMAIN existing
            /\ \A r \in refs : CanDeref(existing, existing[r])
    THEN [ok |-> TRUE,
          step |-> NewStepOf(name, {Deref(existing, existing[r]) : r \in refs})]
    ELSE [ok |-> FALSE, step |-> NewStepOf(name, {})]

\* Step.dependencies, lines 498-511: the steps among the kwargs' values.
dependencies(step) == step.kwargs

\* `steps_parsed <= 0` on line 551.
NoProgressOffByOne(n) == n <= 1

NoProgressNever(n) == FALSE

NoProgress(n) == n <= 0

\* dict.popitem(): the last inserted item.
Last(s) == s[Len(s)]
FrontKeepsItem(s) == s
Front(s) == SubSeq(s, 1, Len(s) - 1)

AddStep(f, name, step) == [n \in DOMAIN f \cup {name} |-> IF n = name THEN step ELSE f[n]]

\* Lines 550-555: a pass that resolved nothing ends in the ConfigurationError.
ResolverFail ==
    /\ rpc = "loop"
    /\ Len(unparsed_steps) <= 0 /\ Len(next_unparsed_steps) > 0
    /\ NoProgress(steps_parsed)
    /\ rpc' = "cycle_error"
    /\ error_names' = next_unparsed_steps
    /\ UNCHANGED <<params, is_ref, unparsed_steps, next_unparsed_steps, parsed_steps,
                   steps_parsed>>
    /\ UNCHANGED exceptRes

\* Lines 549-569: one iteration of the loop that does not raise on line 552.
ResolverPop ==
    /\ rpc = "loop"
    /\ Len(unparsed_steps) > 0 \/ Len(next_unparsed_steps) > 0
    /\ Len(unparsed_steps) <= 0 => ~NoProgress(steps_parsed)
    /\ LET swap == Len(unparsed_steps) <= 0
           queue == IF swap THEN next_unparsed_steps ELSE unparsed_steps
           deferred == IF swap THEN <<>> ELSE next_unparsed_steps
           count == IF swap THEN 0 ELSE steps_parsed
           step_name == Last(queue)
           r == FromParams(step_name, params[step_name], parsed_steps)
       IN  /\ unparsed_steps' = Front(queue)
           /\ IF step_name \in DOMAIN parsed_steps
              THEN /\ rpc' = "duplicate_error"
                   /\ error_names' = <<step_name>>
                   /\ UNCHANGED parsed_steps
                   /\ next_unparsed_steps' = deferred
                   /\ steps_parsed' = count
              ELSE /\ UNCHANGED <<rpc, error_names>>
                   /\ IF r.ok
                      THEN /\ parsed_steps' = AddStep(parsed_steps, step_name, r.step)
                           /\ steps_parsed' = count + 1
                           /\ next_unparsed_steps' = deferred
                      ELSE /\ UNCHANGED parsed_steps
                           /\ steps_parsed' = count
                           /\ next_unparsed_steps' = Append(deferred, step_name)
    /\ UNCHANGED <<params, is_ref>>
    /\ UNCHANGED exceptRes

\* Lines 549 and 586: both dicts are empty, the loop ends and parsed_steps is returned.
ResolverReturn ==
    /\ rpc = "loop"
    /\ Len(unparsed_steps) = 0 /\ Len(next_unparsed_steps) = 0
    /\ rpc' = "returned"
    /\ UNCHANGED <<params, is_ref, unparsed_steps, next_unparsed_steps, parsed_steps, steps_parsed,
                   error_names>>
    /\ UNCHANGED exceptRes

InitResolver ==
    /\ PolicyIdle
    /\ DirIdle
    /\ GraphIdle
    /\ EvalIdle
    /\ DryIdle
    /\ DepIdle
    /\ params \in [Names -> SUBSET Targets]
    /\ is_ref = [n \in Names |-> FALSE]
    /\ unparsed_steps = InputOrder
    /\ next_unparsed_steps = <<>>
    /\ parsed_steps = <<>>
    /\ steps_parsed = 0
    /\ rpc = "loop"
    /\ error_names = <<>>

NextResolver == ResolverFail \/ ResolverPop \/ ResolverReturn
SpecResolver == InitResolver /\ [][NextResolver]_vars

\* Configurations in which an entry may have the type "ref": such an entry has
\* the one parameter ref, the name it refers to.
InitResolverRefs ==
    /\ PolicyIdle
    /\ DirIdle
    /\ GraphIdle
    /\ EvalIdle
    /\ DryIdle
    /\ DepIdle
    /\ params \in [Names -> SUBSET Targets]
    /\ is_ref \in {f \in [Names -> BOOLEAN] :
                    \A n \in Names : f[n] => Cardinality(params[n]) = 1}
    /\ unparsed_steps = InputOrder
    /\ next_unparsed_steps = <<>>
    /\ parsed_steps = <<>>
    /\ steps_parsed = 0
    /\ rpc = "loop"
    /\ error_names = <<>>

SpecResolverRefs == InitResolverRefs /\ [][NextResolver]_vars

\* The names a configuration can resolve: the least set closed under
\* "every reference is resolvable".
RECURSIVE Closure(_)
Closure(S) ==
    LET T == S \cup {n \in Names : params[n] \subseteq S}
    IN  IF T = S THEN S ELSE Closure(T)
Resolvable == Closure({})
\* Every reference names a key and the reference graph has no cycle.
ValidConfig == Resolvable = Names

C12_NoRefStepReturned ==
    rpc = "returned" =>
        \A n \in DOMAIN parsed_steps :
            /\ ~IsRefStep(parsed_steps[n])
            /\ \A k \in parsed_steps[n].kwargs : ~IsRefStep(k)

(***************************************************************************)
(* DirectoryStepCache, lines 97-153.                                       *)
(*                                                                         *)
(* The root directory is shared by the processes in procs; each process    *)
(* has its own DirectoryStepCache object, hence its own weak in-memory     *)
(* layer. A step is identified by its fingerprint (unique_id). A value is  *)
(* a record: wr tells whether its type supports weak references (an        *)
(* instance of a class does; an int, a str, a list, a dict do not).        *)
(***************************************************************************)
Fps == 1..MaxFps
Writers == {1, 2}
Values == [id : 1..MaxValues, wr : BOOLEAN]
NoValue == [id |-> 0, wr |-> FALSE]
NoFile == [exists |-> FALSE, step |-> 0, checksum |-> 0]
NoPayload == [state |-> "none", value |-> NoValue]
NoPut == [fp |-> 0, value |-> NoValue, sum |-> 0, existed |-> FALSE, leftover |-> FALSE]
NoOutcome == [kind |-> "none", fp |-> 0, existed |-> FALSE, leftover |-> FALSE]


\* Format.checksum: a digest of the files under the location; the digest of a
\* half-written payload is the digest of no complete payload.
digest(v) == 2 * v.id + (IF v.wr THEN 1 ELSE 0)
checksum(pl) == IF pl.state = "complete" THEN digest(pl.value) ELSE 0 - digest(pl.value)

\* Format.read: the value format.write wrote, when it wrote all of it.
readNothing(pl) == NoValue

read(pl) == IF pl.state = "complete" THEN pl.value ELSE NoValue

\* DirectoryStepCache.__contains__, lines 107-114, in process p.
containsMetadataOnly(p, fp) == metadata[fp].exists

contains(p, fp) ==
    IF weak[p][fp] # NoValue THEN TRUE ELSE metadata[fp].exists

\* DirectoryStepCache.__getitem__, lines 116-124: what it returns
\* (kind "KeyError": a cache miss; "TypeError": line 123 cannot weakly reference).
getitem(p, fp) ==
    IF weak[p][fp] # NoValue THEN [kind |-> "value", value |-> weak[p][fp]]
    ELSE IF ~contains(p, fp) THEN [kind |-> "KeyError", value |-> NoValue]
    ELSE IF ~read(payload[fp]).wr THEN [kind |-> "TypeError", value |-> NoValue]
    ELSE [kind |-> "value", value |-> read(payload[fp])]

\* Line 131: metadata_location.exists().
AlreadyCommittedByPayload(fp) == payload[fp].state # "none"

AlreadyCommitted(fp) == metadata[fp].exists

Ended(p, kind) ==
    [kind |-> kind, fp |-> cur[p].fp, existed |-> cur[p].existed, leftover |-> cur[p].leftover]

\* Lines 127-133 of __setitem__(step, value): mkdir, then the "will not overwrite" check.
PutEnter(p, fp, v) ==
    /\ wpc[p] = "idle"
    /\ location' = [location EXCEPT ![fp] = TRUE]
    /\ LET c == [fp |-> fp, value |-> v, sum |-> 0, existed |-> metadata[fp].exists,
                 leftover |-> payload[fp].state # "none"]
       IN  IF AlreadyCommitted(fp)
           THEN /\ outcome' = [outcome EXCEPT ![p] =
                       [kind |-> "WillNotOverwrite", fp |-> fp, existed |-> c.existed,
                        leftover |-> c.leftover]]
                /\ UNCHANGED <<wpc, cur>>
           ELSE /\ wpc' = [wpc EXCEPT ![p] = "write"]
                /\ cur' = [cur EXCEPT ![p] = c]
                /\ outcome' = [outcome EXCEPT ![p] = NoOutcome]
    /\ UNCHANGED <<procs, payload, temp, metadata, weak, commits>>
    /\ UNCHANGED exceptDir

\* Line 136, format.write: the first bytes of the payload reach the disk...
FormatWriteBegin(p) ==
    /\ wpc[p] = "write"
    /\ payload' = [payload EXCEPT ![cur[p].fp] = [state |-> "partial", value |-> cur[p].value]]
    /\ wpc' = [wpc EXCEPT ![p] = "writing"]
    /\ UNCHANGED <<procs, location, temp, metadata, weak, cur, outcome, commits>>
    /\ UNCHANGED exceptDir

\* ... and the last ones: format.write returns.
FormatWriteEnd(p) ==
    /\ wpc[p] = "writing"
    /\ payload' = [payload EXCEPT ![cur[p].fp] = [state |-> "complete", value |-> cur[p].value]]
    /\ wpc' = [wpc EXCEPT ![p] = "checksum"]
    /\ UNCHANGED <<procs, location, temp, metadata, weak, cur, outcome, commits>>
    /\ UNCHANGED exceptDir

\* Lines 137-140: format.checksum(location).
Checksum(p) ==
    /\ wpc[p] = "checksum"
    /\ cur' = [cur EXCEPT ![p].sum = checksum(payload[cur[p].fp])]
    /\ wpc' = [wpc EXCEPT ![p] = "temp"]
    /\ UNCHANGED <<procs, location, payload, temp, metadata, weak, outcome, commits>>
    /\ UNCHANGED exceptDir

\* Lines 141-142: the metadata is written to the temporary file.
WriteTemp(p) ==
    /\ wpc[p] = "temp"
    /\ temp' = [temp EXCEPT ![cur[p].fp] =
                   [exists |-> TRUE, step |-> cur[p].fp, checksum |-> cur[p].sum]]
    /\ wpc' = [wpc EXCEPT ![p] = "cache"]
    /\ UNCHANGED <<procs, location, payload, metadata, weak, cur, outcome, commits>>
    /\ UNCHANGED exceptDir

\* Lines 145-147: the except clause unlinks the temporary file and re-raises.
Raise(p, kind) ==
    /\ temp' = [temp EXCEPT ![cur[p].fp] = NoFile]
    /\ wpc' = [wpc EXCEPT ![p] = "idle"]
    /\ outcome' = [outcome EXCEPT ![p] = Ended(p, kind)]
    /\ cur' = [cur EXCEPT ![p] = NoPut]

\* Line 143: the value enters the WeakValueDictionary, which raises TypeError
\* for a value that cannot be weakly referenced.
WeakSet(p) ==
    /\ wpc[p] = "cache"
    /\ IF cur[p].value.wr
       THEN /\ weak' = [weak EXCEPT ![p][cur[p].fp] = cur[p].value]
            /\ wpc' = [wpc EXCEPT ![p] = "rename"]
            /\ UNCHANGED <<temp, cur, outcome>>
       ELSE /\ Raise(p, "TypeError")
            /\ UNCHANGED weak
    /\ UNCHANGED <<procs, location, payload, metadata, commits>>
    /\ UNCHANGED exceptDir

\* Line 144: rename replaces metadata.json by the temporary file; it raises when the
\* temporary file is gone (another writer renamed or unlinked it).
Rename(p) ==
    /\ wpc[p] = "rename"
    /\ IF temp[cur[p].fp].exists
       THEN /\ metadata' = [metadata EXCEPT ![cur[p].fp] = temp[cur[p].fp]]
            /\ temp' = [temp EXCEPT ![cur[p].fp] = NoFile]
            /\ wpc' = [wpc EXCEPT ![p] = "idle"]
            /\ outcome' = [outcome EXCEPT ![p] = Ended(p, "ok")]
            /\ cur' = [cur EXCEPT ![p] = NoPut]
            /\ commits' = [commits EXCEPT ![cur[p].fp] = @ + 1]
       ELSE /\ Raise(p, "error")
            /\ UNCHANGED <<metadata, commits>>
    /\ UNCHANGED <<procs, location, payload, weak>>
    /\ UNCHANGED exceptDir

\* The positions where a call of lines 136-144 can raise (an I/O error of
\* format.write before or amid its writes, of checksum, of open or json.dump,
\* of rename).
CanRaise(pc) == pc \in {"write", "writing", "checksum", "temp", "rename"}

PutFailSwallowed(p) ==
    /\ wpc[p] = "writing"
    /\ wpc' = [wpc EXCEPT ![p] = "checksum"]
    /\ UNCHANGED <<temp, outcome, cur>>

PutFailRaises(p) ==
    /\ CanRaise(wpc[p])
    /\ Raise(p, "error")

\* A step of lines 136-144 raises: lines 145-147.
PutFail(p) ==
    /\ PutFailRaises(p)
    /\ UNCHANGED <<procs, location, payload, metadata, weak, commits>>
    /\ UNCHANGED exceptDir

\* The process dies inside __setitem__: the files stay as they are, the next
\* process on the directory starts with an empty weak layer.
Crash(p) ==
    /\ wpc[p] # "idle"
    /\ wpc' = [wpc EXCEPT ![p] = "idle"]
    /\ weak' = [weak EXCEPT ![p] = [fp \in Fps |-> NoValue]]
    /\ outcome' = [outcome EXCEPT ![p] = Ended(p, "crashed")]
    /\ cur' = [cur EXCEPT ![p] = NoPut]
    /\ UNCHANGED <<procs, location, payload, temp, metadata, commits>>
    /\ UNCHANGED exceptDir

\* DirectoryStepCache.__getitem__, lines 116-124: a read from the disk fills the weak layer.
DirGet(p, fp) ==
    /\ wpc[p] = "idle"
    /\ weak[p][fp] = NoValue
    /\ getitem(p, fp).kind = "value"
    /\ weak' = [weak EXCEPT ![p][fp] = getitem(p, fp).value]
    /\ UNCHANGED <<procs, location, payload, temp, metadata, wpc, cur, outcome, commits>>
    /\ UNCHANGED exceptDir

\* The last strong reference to a cached value is dropped (never while
\* __setitem__ holds the value as its argument): the weak entry vanishes.
WeakDrop(p, fp) ==
    /\ weak[p][fp] # NoValue
    /\ ~(wpc[p] # "idle" /\ cur[p].fp = fp)
    /\ weak' = [weak EXCEPT ![p][fp] = NoValue]
    /\ UNCHANGED <<procs, location, payload, temp, metadata, wpc, cur, outcome, commits>>
    /\ UNCHANGED exceptDir

InitDirFiles ==
    /\ PolicyIdle
    /\ ResolverIdle
    /\ GraphIdle
    /\ EvalIdle
    /\ DryIdle
    /\ DepIdle
    /\ location = [fp \in Fps |-> FALSE]
    /\ payload = [fp \in Fps |-> NoPayload]
    /\ temp = [fp \in Fps |-> NoFile]
    /\ metadata = [fp \in Fps |-> NoFile]
    /\ weak = [p \in Writers |-> [fp \in Fps |-> NoValue]]
    /\ wpc = [p \in Writers |-> "idle"]
    /\ cur = [p \in Writers |-> NoPut]
    /\ outcome = [p \in Writers |-> NoOutcome]
    /\ commits = [fp \in Fps |-> 0]

NextDir ==
    \/ \E p \in procs, fp \in Fps, v \in Values : PutEnter(p, fp, v)
    \/ \E p \in procs : FormatWriteBegin(p)
    \/ \E p \in procs : FormatWriteEnd(p)
    \/ \E p \in procs : Checksum(p)
    \/ \E p \in procs : WriteTemp(p)
    \/ \E p \in procs : WeakSet(p)
    \/ \E p \in procs : Rename(p)
    \/ \E p \in procs : PutFail(p)
    \/ \E p \in procs : Crash(p)
    \/ \E p \in procs, fp \in Fps : DirGet(p, fp)
    \/ \E p \in procs, fp \in Fps : WeakDrop(p, fp)

\* One process at a time uses the directory (the engine is sequential); a crashed
\* process is followed by a fresh one.
InitDir == InitDirFiles /\ procs = {1}
SpecDir == InitDir /\ [][NextDir]_vars

\* Two processes write to the same root directory.
InitWriters == InitDirFiles /\ procs = Writers
SpecWriters == InitWriters /\ [][NextDir]_vars

(***************************************************************************)
(* C7: in every state of a directory cache, the states inside put and the  *)
(* states a crash or a failure of put leaves included, metadata.json       *)
(* exists for a fingerprint only if format.write has completely written    *)
(* the payload of that fingerprint (and the recorded checksum is that of   *)
(* the payload); after a put that returned successfully metadata.json      *)
(* exists and no temporary metadata file remains.                          *)
(***************************************************************************)
C7_MetadataOnlyAfterPayload ==
    /\ \A fp \in Fps :
         metadata[fp].exists =>
            /\ payload[fp].state = "complete"
            /\ metadata[fp].step = fp
            /\ metadata[fp].checksum = checksum(payload[fp])
    /\ \A p \in procs :
         (wpc[p] = "idle" /\ outcome[p].kind = "ok") =>
            /\ metadata[outcome[p].fp].exists
            /\ ~temp[outcome[p].fp].exists

\* A put has returned successfully: the entry is committed.
C7_Witness ==
    \E p \in procs :
        /\ wpc[p] = "idle" /\ outcome[p].kind = "ok"
        /\ metadata[outcome[p].fp].exists
        /\ payload[outcome[p].fp].state = "complete"

(***************************************************************************)
(* C8: whenever a caller can ask, contains(step) is true only if           *)
(* metadata.json exists for the step's fingerprint; a failed put leaves    *)
(* contains(step) false and get(step) a cache miss.                        *)
(* The code fills the weak layer on line 143, before the rename of line    *)
(* 144, and leaves the entry there when the rename raises.                 *)
(***************************************************************************)
C8_ContainsOnlyIfCommitted ==
    \A p \in procs :
        wpc[p] = "idle" =>
            /\ \A fp \in Fps : contains(p, fp) => metadata[fp].exists
            /\ (outcome[p].kind \in {"error", "TypeError", "crashed"}
                  /\ ~metadata[outcome[p].fp].exists) =>
                 /\ ~contains(p, outcome[p].fp)
                 /\ getitem(p, outcome[p].fp).kind = "KeyError"

(***************************************************************************)
(* C9: put fails with the "will not overwrite" error if and only if        *)
(* metadata.json exists for the fingerprint when put is entered: a put on  *)
(* a committed slot always fails with it, and a put entered after an       *)
(* earlier put crashed or failed before the rename (payload files left     *)
(* behind, no metadata.json) is never refused and commits when it returns. *)
(***************************************************************************)
C9_WillNotOverwriteIffCommitted ==
    \A p \in procs :
        /\ outcome[p].kind # "none" =>
             (outcome[p].kind = "WillNotOverwrite" <=> outcome[p].existed)
        /\ wpc[p] # "idle" => ~cur[p].existed
        /\ (wpc[p] = "idle" /\ outcome[p].kind = "ok") =>
             /\ ~outcome[p].existed
             /\ metadata[outcome[p].fp].exists

\* A put entered over the payload files an earlier put left behind has committed.
C9_Witness ==
    \E p \in procs :
        /\ wpc[p] = "idle" /\ outcome[p].kind = "ok" /\ outcome[p].leftover
        /\ metadata[outcome[p].fp].exists

(***************************************************************************)
(* C10: of two writers that execute put for the same fingerprint on the    *)
(* same root directory, interleaved in any way, at most one returns        *)
(* successfully.                                                           *)
(* The check of line 131 and the rename of line 144 are not atomic: both   *)
(* writers can pass the check before either renames, and both return.      *)
(***************************************************************************)
C10_AtMostOneWriterCommits ==
    \A fp \in Fps : commits[fp] <= 1

(***************************************************************************)
(* Demand-driven evaluation: Step.result, lines 365-417, over a            *)
(* MemoryStepCache (lines 70-91) or a DirectoryStepCache.                  *)
(*                                                                         *)
(* The Step instances are 1..MaxNodes; kwargs[s] lists the Steps among the *)
(* kwargs of s, in the order _replace_steps_with_results meets them (the   *)
(* same Step may occur twice); they are instances built before s, so the   *)
(* graph is acyclic. Three Step classes: "A" and "B" are DETERMINISTIC,    *)
(* "R" is not; the run of "A" and "R" returns an object that can be weakly *)
(* referenced, the run of "B" a value that cannot (an int, a list).        *)
(***************************************************************************)
Steps == 1..MaxNodes
Classes == {"A", "B", "R"}
DETERMINISTIC(c) == c # "R"
WeaklyReferenceable(c) == c # "B"

ArgLists(s) == UNION {[1..n -> 1..(s - 1)] : n \in 0..MaxArgs}

\* Step.unique_id, lines 459-487: the class (its name and VERSION), then the hash
\* of the kwargs with every Step replaced by its unique_id, or of fresh random bits.
RECURSIVE unique_id(_)
unique_id(s) ==
    IF DETERMINISTIC(step_class[s])
    THEN [class |-> step_class[s],
          hash |-> [i \in 1..Len(kwargs[s]) |-> unique_id(kwargs[s][i])],
          random |-> 0]
    ELSE [class |-> step_class[s], hash |-> <<>>, random |-> s]

\* The fingerprint as a key: the first instance with that unique_id stands for it.
FirstWith(id) == CHOOSE t \in Steps : unique_id(t) = id /\
                                     \A u \in Steps : unique_id(u) = id => t <= u

\* Lines 460 and 487: unique_id is computed once per instance and memoized.
\* The steps have no step_name, so __init__ itself computes it (lines 189-190).
Fp(s) == unique_id_cache[s]

\* What the run of instance s returns.
RunValue(s) == [id |-> s, wr |-> WeaklyReferenceable(step_class[s])]

\* `self in cache` and `cache[self]`, lines 406-407.
InCacheNever(s) == FALSE

InCache(s) ==
    IF cache_kind = "memory" THEN mem[Fp(s)] # NoValue ELSE contains(1, Fp(s))

Top == stack[Len(stack)]
Frame(s) == [step |-> s, pc |-> "start", i |-> 1]

\* A call of result returns to its caller, which goes on with its next kwarg.
Return(s) ==
    /\ returned' = returned \cup {s}
    /\ evaluated' = evaluated \cup {s}
    /\ IF Len(stack) = 1
       THEN /\ stack' = <<>>
            /\ status' = "returned"
       ELSE /\ stack' = [Front(stack) EXCEPT ![Len(stack) - 1].i = @ + 1]
            /\ UNCHANGED status

\* An exception leaves every active call of result: none of them catches it.
PropagateOneCall(what) ==
    /\ stack' = Front(stack)
    /\ status' = what
    /\ UNCHANGED <<returned, evaluated>>

Propagate(what) ==
    /\ stack' = <<>>
    /\ status' = what
    /\ UNCHANGED <<returned, evaluated>>

\* A top-level call step.result(cache).
Call(s) ==
    /\ stack = <<>>
    /\ calls < MaxCalls
    /\ stack' = <<Frame(s)>>
    /\ calls' = calls + 1
    /\ root' = s
    /\ status' = "running"
    /\ begun' = {}
    /\ evaluated' = {}
    /\ failed' = 0
    /\ UNCHANGED <<cache_kind, mem, runs, returned, temp_dir_for_run, scratch, rundir>>
    /\ UNCHANGED dirVars
    /\ UNCHANGED exceptEval

\* Lines 406-407: the step is in the cache, cache[self] is returned. The directory
\* cache reads the value from the disk when its weak layer does not hold it.
ResultHit ==
    /\ stack # <<>> /\ Top.pc = "start"
    /\ InCache(Top.step)
    /\ IF cache_kind = "directory"
       THEN LET g == getitem(1, Fp(Top.step))
            IN  IF g.kind = "value"
                THEN /\ weak' = [weak EXCEPT ![1][Fp(Top.step)] = g.value]
                     /\ Return(Top.step)
                ELSE /\ Propagate(g.kind)
                     /\ UNCHANGED weak
       ELSE /\ Return(Top.step)
            /\ UNCHANGED weak
    /\ UNCHANGED <<cache_kind, mem, runs, temp_dir_for_run, scratch, rundir, calls, root,
                   begun, failed>>
    /\ UNCHANGED <<procs, location, payload, temp, metadata, wpc, cur, outcome, commits>>
    /\ UNCHANGED exceptEval

\* Line 406: the step is not in the cache.
ResultMiss ==
    /\ stack # <<>> /\ Top.pc = "start"
    /\ ~InCache(Top.step)
    /\ stack' = [stack EXCEPT ![Len(stack)].pc = "args"]
    /\ UNCHANGED <<cache_kind, mem, runs, returned, evaluated, temp_dir_for_run, scratch, rundir,
                   calls, root, status, begun, failed>>
    /\ UNCHANGED dirVars
    /\ UNCHANGED exceptEval

\* Line 409 has returned: every Step among the kwargs of the call f is replaced.
ArgsDoneAlways(f) == TRUE

ArgsDone(f) == f.i > Len(kwargs[f.step])

\* Lines 390-401 and 409: the next Step among the kwargs is replaced by its result.
ResultArg ==
    /\ stack # <<>> /\ Top.pc = "args"
    /\ Top.i <= Len(kwargs[Top.step])
    /\ stack' = Append(stack, Frame(kwargs[Top.step][Top.i]))
    /\ UNCHANGED <<cache_kind, mem, runs, returned, evaluated, temp_dir_for_run, scratch, rundir,
                   calls, root, status, begun, failed>>
    /\ UNCHANGED dirVars
    /\ UNCHANGED exceptEval

\* Line 366: the guard of _run_with_temp_dir.
RunActiveNever(s) == FALSE

RunActive(s) == temp_dir_for_run[s] # "none"

\* The instances whose run is on the call stack.
Running == {stack[i].step : i \in {j \in 1..Len(stack) : stack[j].pc = "run"}}

\* Lines 365-381: _run_with_temp_dir up to the call of run.  The ValueError of
\* line 367 is raised before the try statements, so it leaves the fields of
\* the step alone: either the run body that made the call handles it and
\* goes on, or it leaves every run on the call stack through its finally
\* clause (lines 374-376, 382-384).
RunEnter ==
    /\ stack # <<>> /\ Top.pc = "args"
    /\ ArgsDone(Top)
    /\ LET s == Top.step
       IN  IF RunActive(s)
           THEN /\ UNCHANGED <<runs, begun, rundir, location>>
                /\ IF Len(stack) > 1 /\ stack[Len(stack) - 1].pc = "run"
                   THEN \/ /\ stack' = Front(stack)
                           /\ UNCHANGED <<status, returned, evaluated>>
                           /\ UNCHANGED <<temp_dir_for_run, scratch>>
                        \/ /\ Propagate("ValueError")
                           /\ temp_dir_for_run' =
                                  [t \in Steps |-> IF t \in Running THEN "none"
                                                   ELSE temp_dir_for_run[t]]
                           /\ scratch' = scratch \ Running
                   ELSE /\ Propagate("ValueError")
                        /\ UNCHANGED <<temp_dir_for_run, scratch>>
           ELSE /\ stack' = [stack EXCEPT ![Len(stack)].pc = "run"]
                /\ runs' = [runs EXCEPT ![s] = @ + 1]
                /\ begun' = begun \cup {s}
                /\ UNCHANGED <<status, returned, evaluated>>
                /\ IF cache_kind = "memory"
                   THEN /\ temp_dir_for_run' = [temp_dir_for_run EXCEPT ![s] = "ephemeral"]
                        /\ scratch' = scratch \cup {s}
                        /\ UNCHANGED <<rundir, location>>
                   ELSE /\ temp_dir_for_run' = [temp_dir_for_run EXCEPT ![s] = "persistent"]
                        /\ rundir' = [rundir EXCEPT ![Fp(s)] = TRUE]
                        /\ location' = [location EXCEPT ![Fp(s)] = TRUE]
                        /\ UNCHANGED scratch
    /\ UNCHANGED <<cache_kind, mem, calls, root, failed>>
    /\ UNCHANGED <<procs, payload, temp, metadata, weak, wpc, cur, outcome, commits>>
    /\ UNCHANGED exceptEval

\* The finally clauses of lines 374-376 and 382-384.
FinallyKeeps(s) == UNCHANGED <<temp_dir_for_run, scratch, rundir>>

Finally(s) ==
    /\ temp_dir_for_run' = [temp_dir_for_run EXCEPT ![s] = "none"]
    /\ scratch' = scratch \ {s}
    /\ UNCHANGED rundir

\* run returns; line 411 decides whether the result goes to the cache.
RunReturn ==
    /\ stack # <<>> /\ Top.pc = "run"
    /\ Finally(Top.step)
    /\ IF cache_results[Top.step]
       THEN /\ stack' = [stack EXCEPT ![Len(stack)].pc = "put"]
            /\ UNCHANGED <<returned, evaluated, status>>
       ELSE Return(Top.step)
    /\ UNCHANGED <<cache_kind, mem, runs, calls, root, begun, failed>>
    /\ UNCHANGED dirVars
    /\ UNCHANGED exceptEval

\* run raises.
RunFail ==
    /\ stack # <<>> /\ Top.pc = "run"
    /\ Finally(Top.step)
    /\ Propagate("RunError")
    /\ failed' = Top.step
    /\ UNCHANGED <<cache_kind, mem, runs, calls, root, begun>>
    /\ UNCHANGED dirVars
    /\ UNCHANGED exceptEval

\* MemoryStepCache.__setitem__, lines 78-82.
MemPutDropped(step, value) == mem

MemPut(step, value) ==
    IF cache_results[step] THEN [mem EXCEPT ![Fp(step)] = value] ELSE mem

\* Line 416 with a MemoryStepCache.
ResultPutMemory ==
    /\ stack # <<>> /\ Top.pc = "put"
    /\ cache_kind = "memory"
    /\ mem' = MemPut(Top.step, RunValue(Top.step))
    /\ Return(Top.step)
    /\ UNCHANGED <<cache_kind, runs, temp_dir_for_run, scratch, rundir, calls, root,
                   begun, failed>>
    /\ UNCHANGED dirVars
    /\ UNCHANGED exceptEval

\* DirectoryStepCache.__setitem__, lines 126-147, as one call in process p; fault
\* names the call of lines 136-144 that raises, if any ("write0": format.write
\* before it wrote anything, "write": amid its writes).
Faults == {"none", "write0", "write", "checksum", "temp", "rename"}

DirPutResult(fp, v, fault) ==
    IF AlreadyCommitted(fp) THEN "WillNotOverwrite"
    ELSE IF fault \in {"write0", "write", "checksum", "temp"} THEN "error"
    ELSE IF ~v.wr THEN "TypeError"
    ELSE IF fault = "rename" THEN "error"
    ELSE "ok"

DirPut(p, fp, v, fault) ==
    /\ location' = [location EXCEPT ![fp] = TRUE]
    /\ IF AlreadyCommitted(fp)
       THEN UNCHANGED <<payload, temp, metadata, weak, commits>>
       ELSE /\ payload' = [payload EXCEPT ![fp] =
                   IF fault = "write0" THEN @
                   ELSE IF fault = "write" THEN [state |-> "partial", value |-> v]
                   ELSE [state |-> "complete", value |-> v]]
            /\ weak' = IF fault \in {"none", "rename"} /\ v.wr
                       THEN [weak EXCEPT ![p][fp] = v] ELSE weak
            /\ IF fault = "none" /\ v.wr
               THEN /\ metadata' = [metadata EXCEPT ![fp] =
                         [exists |-> TRUE, step |-> fp,
                          checksum |-> checksum([state |-> "complete", value |-> v])]]
                    /\ commits' = [commits EXCEPT ![fp] = @ + 1]
               ELSE UNCHANGED <<metadata, commits>>
            /\ temp' = [temp EXCEPT ![fp] = NoFile]

\* Line 416 with a DirectoryStepCache.
ResultPutDirectory ==
    /\ stack # <<>> /\ Top.pc = "put"
    /\ cache_kind = "directory"
    /\ \E fault \in Faults :
         LET r == DirPutResult(Fp(Top.step), RunValue(Top.step), fault)
         IN  /\ DirPut(1, Fp(Top.step), RunValue(Top.step), fault)
             /\ IF r = "ok" THEN Return(Top.step) ELSE Propagate(r)
    /\ UNCHANGED <<cache_kind, mem, runs, temp_dir_for_run, scratch, rundir, calls, root,
                   begun, failed>>
    /\ UNCHANGED <<procs, wpc, cur, outcome>>
    /\ UNCHANGED exceptEval

\* The garbage collector drops a value of the directory cache's weak layer.
Collect ==
    /\ cache_kind = "directory"
    /\ \E s \in Steps : WeakDrop(1, Fp(s))

InitGraph ==
    /\ kwargs \in {f \in [Steps -> UNION {ArgLists(s) : s \in Steps}] :
                     \A s \in Steps : f[s] \in ArgLists(s)}
    /\ step_class \in [Steps -> Classes]
    /\ cache_results \in [Steps -> BOOLEAN]
    /\ unique_id_cache = [s \in Steps |-> FirstWith(unique_id(s))]

Init ==
    /\ PolicyIdle
    /\ ResolverIdle
    /\ InitGraph
    /\ cache_kind \in {"memory", "directory"}
    /\ mem = [s \in Steps |-> NoValue]
    /\ stack = <<>>
    /\ runs = [s \in Steps |-> 0]
    /\ returned = {}
    /\ temp_dir_for_run = [s \in Steps |-> "none"]
    /\ scratch = {}
    /\ rundir = [s \in Steps |-> FALSE]
    /\ calls = 0
    /\ root = 0
    /\ status = "idle"
    /\ begun = {}
    /\ evaluated = {}
    /\ failed = 0
    /\ DryIdle
    /\ DepIdle
    /\ procs = {1}
    /\ location = [s \in Steps |-> FALSE]
    /\ payload = [s \in Steps |-> NoPayload]
    /\ temp = [s \in Steps |-> NoFile]
    /\ metadata = [s \in Steps |-> NoFile]
    /\ weak = [p \in Writers |-> [s \in Steps |-> NoValue]]
    /\ wpc = [p \in Writers |-> "idle"]
    /\ cur = [p \in Writers |-> NoPut]
    /\ outcome = [p \in Writers |-> NoOutcome]
    /\ commits = [s \in Steps |-> 0]

Next ==
    \/ \E s \in Steps : Call(s)
    \/ ResultHit
    \/ ResultMiss
    \/ ResultArg
    \/ RunEnter
    \/ RunReturn
    \/ RunFail
    \/ ResultPutMemory
    \/ ResultPutDirectory
    \/ Collect

Spec == Init /\ [][Next]_vars

\* The entry of step s is committed: stored by the memory cache, or metadata.json
\* written by the directory cache.
Committed(s) ==
    IF cache_kind = "memory" THEN mem[Fp(s)] # NoValue ELSE metadata[Fp(s)].exists

(***************************************************************************)
(* C1, as claimed: for every step and either cache, once result(s, cache)  *)
(* has returned successfully, no later call of result(s, cache) invokes    *)
(* the run of s.                                                           *)
(***************************************************************************)
C1_NoRerunAfterReturn ==
    [][\A s \in Steps : s \in returned => runs'[s] = runs[s]]_vars

(***************************************************************************)
(* C1, as amended: for every step with cache_results = true and either     *)
(* cache, once result(s, cache) has returned successfully with the entry   *)
(* of s committed (stored by the memory cache; metadata.json written by    *)
(* the directory cache), no later call invokes the run of s.               *)
(***************************************************************************)
C1_NoRerunOfCachedStep ==
    [][\A s \in Steps :
          (s \in returned /\ cache_results[s] /\ Committed(s)) =>
              \A t \in Steps : Fp(t) = Fp(s) => runs'[t] = runs[t]]_vars

\* The second top-level call of result on a cached step has returned; the step
\* was run once, by the first call.
C1_Witness ==
    \E s \in Steps :
        /\ calls = 2 /\ status = "returned" /\ root = s
        /\ s \in returned /\ cache_results[s] /\ Committed(s)
        /\ runs[s] = 1
        /\ \A t \in Steps \ {s} : runs[t] = 0

\* The steps result(s) reaches: s and the Steps among the kwargs, transitively.
RECURSIVE Reach(_)
Reach(s) == {s} \cup UNION {Reach(kwargs[s][i]) : i \in 1..Len(kwargs[s])}

RECURSIVE Sum(_, _)
Sum(f, S) == IF S = {} THEN 0 ELSE LET x == CHOOSE x \in S : TRUE IN f[x] + Sum(f, S \ {x})

\* The invocations of run over the instances that are the same step as s
\* (equal unique_id: the same class and the same inputs).
RunsOf(s) == Sum(runs, {t \in Steps : Fp(t) = Fp(s)})

(***************************************************************************)
(* C2: in one evaluation result(root, cache) from an empty cache over a    *)
(* DAG whose steps all have cache_results = true, no step is run twice,    *)
(* however many paths lead to it, and when the evaluation has returned     *)
(* every step reachable from root has been run exactly once. Steps are     *)
(* counted as the caches and Step.__eq__ identify them, by unique_id.      *)
(***************************************************************************)
C2_EachStepRunsOnce ==
    (calls = 1 /\ \A s \in Steps : cache_results[s]) =>
        /\ \A s \in Steps : RunsOf(s) <= 1
        /\ status = "returned" =>
             /\ root \in returned
             /\ \A s \in Steps :
                  RunsOf(s) = (IF \E t \in Reach(root) : Fp(t) = Fp(s) THEN 1 ELSE 0)

\* Step 1 is reached from 3 directly and through 2; the evaluation of 3 has returned.
C2_Witness ==
    /\ calls = 1 /\ status = "returned"
    /\ \A s \in Steps : cache_results[s]
    /\ root = 3
    /\ kwargs[3] = <<2, 1>> /\ kwargs[2] = <<1>>
    /\ \A s \in Steps : runs[s] = 1

\* Step.recursive_dependencies, lines 513-522: the Steps among the kwargs of s,
\* and among theirs, and so on.
recursive_dependencies(s) == UNION {Reach(kwargs[s][i]) : i \in 1..Len(kwargs[s])}

name(s) == Fp(s)

DTop == dstack[Len(dstack)]

\* Line 457: cached_steps.add(self).
AddNothing(cs, s) == cs

Add(cs, s) == cs \cup {Fp(s)}

\* A generator is exhausted: its caller goes on with its next kwarg.
DryReturn ==
    IF Len(dstack) = 1
    THEN /\ dstack' = <<>>
         /\ dstatus' = "done"
    ELSE /\ dstack' = [Front(dstack) EXCEPT ![Len(dstack) - 1].i = @ + 1]
         /\ UNCHANGED dstatus

\* Lines 439-441: the step is in cached_steps.
DryCached ==
    /\ dstack # <<>> /\ DTop.pc = "start"
    /\ Fp(DTop.step) \in cached_steps
    /\ emitted' = Append(emitted, <<name(DTop.step), TRUE>>)
    /\ DryReturn
    /\ UNCHANGED <<cached_steps, cached_at_entry, walk_root>>
    /\ UNCHANGED exceptDry

\* Line 439: the step is not in cached_steps; the walk of its kwargs begins.
DryMiss ==
    /\ dstack # <<>> /\ DTop.pc = "start"
    /\ Fp(DTop.step) \notin cached_steps
    /\ dstack' = [dstack EXCEPT ![Len(dstack)].pc = "args"]
    /\ UNCHANGED <<cached_steps, cached_at_entry, walk_root, emitted, dstatus>>
    /\ UNCHANGED exceptDry

\* Lines 443-455: the next Step among the kwargs is walked.
DryArg ==
    /\ dstack # <<>> /\ DTop.pc = "args"
    /\ DTop.i <= Len(kwargs[DTop.step])
    /\ dstack' = Append(dstack, Frame(kwargs[DTop.step][DTop.i]))
    /\ UNCHANGED <<cached_steps, cached_at_entry, walk_root, emitted, dstatus>>
    /\ UNCHANGED exceptDry

\* Lines 456-457: the step itself is yielded, then added to cached_steps.
DryEmit ==
    /\ dstack # <<>> /\ DTop.pc = "args"
    /\ DTop.i > Len(kwargs[DTop.step])
    /\ emitted' = Append(emitted, <<name(DTop.step), FALSE>>)
    /\ cached_steps' = Add(cached_steps, DTop.step)
    /\ DryReturn
    /\ UNCHANGED <<cached_at_entry, walk_root>>
    /\ UNCHANGED exceptDry

InitDryRun ==
    /\ PolicyIdle
    /\ DepIdle
    /\ ResolverIdle
    /\ DirIdle
    /\ EvalIdle
    /\ InitGraph
    /\ walk_root \in Steps
    /\ cached_at_entry \in {{Fp(s) : s \in S} : S \in SUBSET Steps}
    /\ cached_steps = cached_at_entry
    /\ emitted = <<>>
    /\ dstack = <<Frame(walk_root)>>
    /\ dstatus = "walking"

NextDryRun ==
    \/ DryCached
    \/ DryMiss
    \/ DryArg
    \/ DryEmit

SpecDryRun == InitDryRun /\ [][NextDryRun]_vars

\* The steps the walk of s enters without meeting a step that cached_steps held
\* when the walk began.
RECURSIVE Fresh(_)
Fresh(s) ==
    IF Fp(s) \in cached_at_entry THEN {}
    ELSE {Fp(s)} \cup UNION {Fresh(kwargs[s][i]) : i \in 1..Len(kwargs[s])}

(***************************************************************************)
(* C6, as claimed: a full walk dry_run(already_cached) from a root over    *)
(* any DAG emits each reachable step exactly once: no step name appears in *)
(* two emitted pairs.                                                      *)
(***************************************************************************)
C6_NoNameEmittedTwice ==
    \A i, j \in 1..Len(emitted) : i # j => emitted[i][1] # emitted[j][1]

(***************************************************************************)
(* C6, as amended: a full walk dry_run(already_cached) from a root over    *)
(* any DAG emits with the flag false, exactly once each, the steps it      *)
(* reaches by a path on which no step was in already_cached when the walk  *)
(* began, and no other step; a pair with the flag true names a step of     *)
(* already_cached or a step emitted with the flag false before it.         *)
(***************************************************************************)
C6_EmittedOnceAsNew ==
    /\ \A i, j \in 1..Len(emitted) :
          (i # j /\ ~emitted[i][2] /\ ~emitted[j][2]) => emitted[i][1] # emitted[j][1]
    /\ \A j \in 1..Len(emitted) :
          emitted[j][2] =>
             \/ emitted[j][1] \in cached_at_entry
             \/ \E i \in 1..(j - 1) : emitted[i] = <<emitted[j][1], FALSE>>
    /\ dstatus = "done" =>
          {emitted[i][1] : i \in {k \in 1..Len(emitted) : ~emitted[k][2]}} = Fresh(walk_root)

\* The walk of 3 is done; it met step 1 three times (twice from 2, then from 3)
\* and emitted it once as new and twice as cached.
C6_Witness ==
    /\ dstatus = "done"
    /\ walk_root = 3 /\ cached_at_entry = {}
    /\ kwargs[3] = <<2, 1>> /\ kwargs[2] = <<1, 1>>
    /\ emitted = <<<<Fp(1), FALSE>>, <<Fp(1), TRUE>>, <<Fp(2), FALSE>>,
                   <<Fp(1), TRUE>>, <<Fp(3), FALSE>>>>

(***************************************************************************)
(* Step.dependencies, lines 498-511, and _replace_steps_with_results,      *)
(* lines 390-401, over the values a Step's kwargs can hold.                *)
(*                                                                         *)
(* A value is a Step (id), a str, another primitive, or a list, a set, a   *)
(* tuple or a dict of values, nested up to MaxDepth deep with up to        *)
(* MaxItems items; the keys of a dict are strs. kwargs_of_step is          *)
(* self.kwargs: one parameter per element.                                 *)
(***************************************************************************)
StepIds == {1, 2}
Containers == {"list", "set", "tuple", "dict"}
Atom(t, id) == [t |-> t, id |-> id, items |-> <<>>]
Atoms == {Atom("step", id) : id \in StepIds} \cup {Atom("str", 0), Atom("prim", 0)}
ItemLists(V) == UNION {[1..n -> V] : n \in 0..MaxItems}

RECURSIVE InputValues(_)
InputValues(depth) ==
    IF depth = 0 THEN Atoms
    ELSE LET V == InputValues(depth - 1)
         IN  V \cup {[t |-> c, id |-> 0, items |-> q] : c \in Containers, q \in ItemLists(V)}

\* What `for i in o` yields: the items of a list, a set or a tuple, the keys of a dict.
Iterate(o) == IF o.t = "dict" THEN [i \in DOMAIN o.items |-> Atom("str", 0)] ELSE o.items

\* dependencies_internal, lines 499-509: the isinstance(o, Iterable) branch also
\* takes a dict, so the Dict branch of line 506 is never reached.
RECURSIVE dependencies_internal(_)
dependencies_internal(o) ==
    IF o.t = "step" THEN {o.id}
    ELSE IF o.t = "str" THEN {}
    ELSE IF o.t \in Containers
    THEN UNION {dependencies_internal(Iterate(o)[i]) : i \in DOMAIN o.items}
    ELSE {}

\* Line 511: set(dependencies_internal(self.kwargs.values())).
DependenciesOf(kw) == UNION {dependencies_internal(kw[i]) : i \in DOMAIN kw}

\* _replace_steps_with_results, lines 390-401: the Steps whose result() it calls.
\* List, Set and Dict are list, set and dict: a tuple is returned as it is.
RECURSIVE Replaced(_)
Replaced(o) ==
    IF o.t = "step" THEN {o.id}
    ELSE IF o.t \in {"list", "set", "dict"}
    THEN UNION {Replaced(o.items[i]) : i \in DOMAIN o.items}
    ELSE {}

\* Line 409: self._replace_steps_with_results(self.kwargs, cache).
ReplacedOf(kw) == UNION {Replaced(kw[i]) : i \in DOMAIN kw}

\* step.dependencies() is called.
CallDependencies ==
    /\ deps_out = {}
    /\ deps_out' = {DependenciesOf(kwargs_of_step)}
    /\ UNCHANGED <<kwargs_of_step, replaced_out>>
    /\ UNCHANGED exceptDep

\* The kwargs are prepared for run.
CallReplace ==
    /\ replaced_out = {}
    /\ replaced_out' = {ReplacedOf(kwargs_of_step)}
    /\ UNCHANGED <<kwargs_of_step, deps_out>>
    /\ UNCHANGED exceptDep

\* find_steps_from_inputs, lines 443-453: the Steps whose dry_run it walks, in
\* order. List, Set and Dict are list, set and dict: a tuple holds no step for it.
RECURSIVE Flatten(_)
Flatten(q) == IF q = <<>> THEN <<>> ELSE Flatten(Front(q)) \o Last(q)

RECURSIVE find_steps_from_inputs(_)
find_steps_from_inputs(o) ==
    IF o.t = "step" THEN <<o.id>>
    ELSE IF o.t \in {"list", "set", "dict"}
    THEN Flatten([i \in DOMAIN o.items |-> find_steps_from_inputs(o.items[i])])
    ELSE <<>>

\* Lines 439-457 for a step named 0 whose kwargs are kw, called with an empty
\* cached_steps: the embedded steps have no kwargs, each is yielded with the
\* flag false when first met and with the flag true after that.
DryRunOf(kw) ==
    LET v == Flatten([i \in DOMAIN kw |-> find_steps_from_inputs(kw[i])])
    IN  [i \in 1..Len(v) |-> <<v[i], \E j \in 1..(i - 1) : v[j] = v[i]>>]
            \o <<<<0, FALSE>>>>

\* list(step.dry_run(set())) is called.
CallDryRun ==
    /\ emitted = <<>>
    /\ emitted' = DryRunOf(kwargs_of_step)
    /\ cached_steps' = {emitted'[i][1] : i \in DOMAIN emitted'}
    /\ UNCHANGED <<cached_at_entry, walk_root, dstack, dstatus>>
    /\ UNCHANGED depVars
    /\ UNCHANGED <<polVars, resVars, dirVars, graphVars, evalVars>>

InitDep ==
    /\ PolicyIdle
    /\ ResolverIdle
    /\ DirIdle
    /\ GraphIdle
    /\ EvalIdle
    /\ DryIdle
    /\ kwargs_of_step \in [1..1 -> InputValues(MaxDepth)]
    /\ deps_out = {}
    /\ replaced_out = {}

NextDep == CallDependencies \/ CallReplace \/ CallDryRun
SpecDep == InitDep /\ [][NextDep]_vars

\* The Steps embedded in a value: through lists, sets, tuples and the values of dicts.
RECURSIVE Embedded(_)
Embedded(o) ==
    IF o.t = "step" THEN {o.id}
    ELSE UNION {Embedded(o.items[i]) : i \in DOMAIN o.items}

(***************************************************************************)
(* C13: dependencies() returns exactly the Steps embedded in the values of *)
(* kwargs, through sequences, sets and mappings, strings not traversed,    *)
(* and it is the set of Steps that result() replaces by their results.     *)
(* The code iterates a nested dict as an Iterable, that is over its keys:  *)
(* a Step held as a value of a nested mapping is not returned.             *)
(***************************************************************************)
C13_DependenciesAreTheEmbeddedSteps ==
    LET all == UNION {Embedded(kwargs_of_step[i]) : i \in DOMAIN kwargs_of_step}
    IN  /\ deps_out \subseteq {all}
        /\ (deps_out # {} /\ replaced_out # {}) => deps_out = replaced_out

(***************************************************************************)
(* The caches as Step.result uses them: put is cache[self] = result of     *)
(* line 416, get is cache[step] and contains is `step in cache`, through   *)
(* any Step instance.                                                      *)
(***************************************************************************)
\* MemoryStepCache.__getitem__, lines 75-76, and DirectoryStepCache.__getitem__.
CacheGet(s) ==
    IF cache_kind = "memory"
    THEN [kind |-> IF mem[Fp(s)] # NoValue THEN "value" ELSE "KeyError", value |-> mem[Fp(s)]]
    ELSE getitem(1, Fp(s))

\* The put of the innermost call of result returns in this step.
PutReturns ==
    /\ stack # <<>> /\ Top.pc = "put"
    /\ Len(stack') < Len(stack)
    /\ status' \in {"running", "returned"}

(***************************************************************************)
(* C14: for both caches and any step s with cache_results = true, when     *)
(* put(s, v) returns, contains is true and get returns v, also through     *)
(* another Step instance with the same fingerprint; and an entry the       *)
(* directory cache committed is returned by get whether or not the weak    *)
(* in-memory layer still holds it.                                         *)
(***************************************************************************)
C14_PutThenGet ==
    /\ [][PutReturns =>
            \A t \in Steps :
                Fp(t) = Fp(Top.step) =>
                    /\ InCache(t)'
                    /\ CacheGet(t)' = [kind |-> "value", value |-> RunValue(Top.step)]]_vars
    /\ [](\A s \in Steps :
            (cache_kind = "directory" /\ Committed(s)) =>
                /\ InCache(s)
                /\ CacheGet(s).kind = "value"
                /\ digest(CacheGet(s).value) = metadata[Fp(s)].checksum)

\* The directory cache committed the result of instance 1; the weak layer has lost
\* it, and get through the equal instance 2 reads it from the disk.
C14_Witness ==
    /\ cache_kind = "directory"
    /\ Fp(2) = 1 /\ metadata[1].exists /\ weak[1][1] = NoValue
    /\ InCache(2)
    /\ CacheGet(2) = [kind |-> "value", value |-> RunValue(1)]


(***************************************************************************)
(* Re-entrant calls: a run whose body calls self.result(cache).  The steps *)
(* of this specification have no Step among their kwargs.                  *)
(***************************************************************************)
MaxStack == 3

\* Line 362 is abstract: the run of a subclass may call result (line 403) of
\* its own instance.
RunCallsResult ==
    /\ stack # <<>> /\ Top.pc = "run"
    /\ Len(stack) < MaxStack
    /\ stack' = Append(stack, Frame(Top.step))
    /\ UNCHANGED <<cache_kind, mem, runs, returned, evaluated, temp_dir_for_run, scratch, rundir,
                   calls, root, status, begun, failed>>
    /\ UNCHANGED dirVars
    /\ UNCHANGED exceptEval

InitReentry ==
    /\ Init
    /\ \A s \in Steps : kwargs[s] = <<>>

NextReentry ==
    \/ \E s \in Steps : Call(s)
    \/ ResultHit
    \/ ResultMiss
    \/ RunEnter
    \/ RunCallsResult
    \/ RunReturn
    \/ RunFail
    \/ ResultPutMemory
    \/ ResultPutDirectory
    \/ Collect

SpecReentry == InitReentry /\ [][NextReentry]_vars

(***************************************************************************)
(* C15: an instance has at most one run in progress.  While a run of s is  *)
(* in progress temp_dir_for_run of s is set, and a second entry into       *)
(* _run_with_temp_dir on s ends in the ValueError without calling run: the *)
(* outer run either goes on with temp_dir_for_run still set, or is left    *)
(* by the exception.                                                        *)
(***************************************************************************)
C15_OneRunAtATime ==
    /\ [](\A s \in Steps :
             Cardinality({i \in 1..Len(stack) :
                             stack[i].step = s /\ stack[i].pc = "run"}) <= 1)
    /\ [](\A s \in Running : temp_dir_for_run[s] # "none")
    /\ [][(/\ stack # <<>> /\ Top.pc = "args" /\ ArgsDone(Top)
           /\ temp_dir_for_run[Top.step] # "none"
           /\ stack' # stack) =>
             /\ runs' = runs
             /\ \/ /\ stack' = Front(stack)
                   /\ temp_dir_for_run' = temp_dir_for_run
                \/ /\ stack' = <<>>
                   /\ status' = "ValueError"
                   /\ temp_dir_for_run'[Top.step] = "none"]_vars

\* The run of step 1 called result on step 1, and the ValueError ended the call.
C15_Witness ==
    /\ status = "ValueError" /\ stack = <<>>
    /\ calls = 1 /\ root = 1
    /\ runs[1] = 1
    /\ temp_dir_for_run[1] = "none"

(***************************************************************************)
(* C16: temp_dir_for_run of an instance is set exactly while a run of it   *)
(* is on the call stack, so it is unset after every exit of run.  The      *)
(* ephemeral directory of a step exists only during its run (memory        *)
(* cache), and the run directory of the directory cache is kept.           *)
(***************************************************************************)
C16_TempDirSetExactlyDuringRun ==
    /\ \A s \in Steps : temp_dir_for_run[s] # "none" <=> s \in Running
    /\ \A s \in Running :
          temp_dir_for_run[s] = IF cache_kind = "memory" THEN "ephemeral" ELSE "persistent"
    /\ scratch = IF cache_kind = "memory" THEN Running ELSE {}
    /\ cache_kind = "directory" => \A s \in Steps : runs[s] > 0 => rundir[Fp(s)]

\* The run of step 2 failed under the memory cache after the run of its
\* dependency 1 had returned.
C16_Witness ==
    /\ cache_kind = "memory"
    /\ status = "RunError" /\ failed = 2
    /\ kwargs[2] = <<1>>
    /\ runs[1] = 1 /\ runs[2] = 1
    /\ temp_dir_for_run = [s \in Steps |-> "none"]
    /\ scratch = {}

(***************************************************************************)
(* C17: when the run of a step s fails, the exception leaves every call of *)
(* result that waits for s, up to result(root, cache): none of the waiting *)
(* steps, which all depend on s and are not in the cache, starts its run   *)
(* or is put into the cache, and the failure leaves the cache as it was.   *)
(* While the failure stands s has no cache entry.                          *)
(***************************************************************************)
C17_FailureAbortsTheChain ==
    /\ [](status = "RunError" =>
             /\ stack = <<>>
             /\ failed \in Steps
             /\ ~InCache(failed))
    /\ [][(stack # <<>> /\ Top.pc = "run" /\ status' = "RunError") =>
             /\ stack' = <<>>
             /\ failed' = Top.step
             /\ runs' = runs /\ begun' = begun
             /\ UNCHANGED <<mem, location, payload, temp, metadata, weak>>
             /\ \A i \in 1..(Len(stack) - 1) :
                   /\ stack[i].pc = "args"
                   /\ Top.step \in recursive_dependencies(stack[i].step)
                   /\ ~InCache(stack[i].step)]_vars

\* result(3) evaluated step 1, which was cached, then step 2, whose run failed:
\* step 3 never ran and only step 1 has an entry.
C17_Witness ==
    /\ status = "RunError" /\ failed = 2
    /\ calls = 1 /\ root = 3
    /\ kwargs[3] = <<1, 2>> /\ kwargs[2] = <<1>>
    /\ runs = <<1, 1, 0>>
    /\ Committed(1) /\ ~Committed(2) /\ ~Committed(3)

(***************************************************************************)
(* Step.recursive_dependencies, lines 513-522, on the steps the resolver   *)
(* builds: everything reachable through dependencies().                    *)
(***************************************************************************)
RECURSIVE RecursiveDependencies(_)
RecursiveDependencies(step) ==
    dependencies(step) \cup UNION {RecursiveDependencies(k) : k \in dependencies(step)}

(***************************************************************************)
(* C18: at every point of step_graph_from_params, and so in the mapping it *)
(* returns, every dependency of a resolved step is the very step the       *)
(* mapping holds under that dependency's name, and no resolved step, nor   *)
(* its name, occurs among its own recursive_dependencies().                *)
(***************************************************************************)
C18_ResolvedGraphIsAcyclic ==
    \A n \in DOMAIN parsed_steps :
        LET s == parsed_steps[n]
        IN  /\ s.name = n
            /\ \A k \in dependencies(s) :
                  k.name \in DOMAIN parsed_steps /\ parsed_steps[k.name] = k
            /\ s \notin RecursiveDependencies(s)
            /\ n \notin {k.name : k \in RecursiveDependencies(s)}

\* Step 1 is built from steps 2 and 3, step 2 from step 3.
C18_Witness ==
    /\ rpc = "returned"
    /\ \A n \in Names : ~is_ref[n]
    /\ params[1] = {2, 3} /\ params[2] = {3} /\ params[3] = {}
    /\ RecursiveDependencies(parsed_steps[1]) = {parsed_steps[2], parsed_steps[3]}
    /\ RecursiveDependencies(parsed_steps[2]) = {parsed_steps[3]}

(***************************************************************************)
(* C19, as claimed: a call of result on a step whose cache_results is      *)
(* false never ends at the cache lookup of lines 406-407; it goes on to    *)
(* line 409 and to the run of the step, whatever the cache contains.       *)
(***************************************************************************)
C19_UncachedStepIsRecomputed ==
    [][(/\ stack # <<>> /\ Top.pc = "start"
        /\ ~cache_results[Top.step]
        /\ stack' # stack) =>
          /\ Len(stack') = Len(stack)
          /\ stack'[Len(stack)] = [Top EXCEPT !.pc = "args"]]_vars

(***************************************************************************)
(* The resolver under fair scheduling: the loop of lines 549-569 takes its *)
(* next step whenever it has one.                                          *)
(***************************************************************************)
SpecResolverFair ==
    InitResolverRefs /\ [][NextResolver]_vars /\ WF_vars(NextResolver)

(***************************************************************************)
(* C20: step_graph_from_params terminates: every execution reaches the     *)
(* return of the mapping or a ConfigurationError, and a pass over the      *)
(* deferred queue starts only after a pass that resolved at least one      *)
(* step.                                                                   *)
(***************************************************************************)
C20_ResolverTerminates ==
    /\ <>(rpc \in {"returned", "cycle_error", "duplicate_error"})
    /\ [][(/\ rpc = "loop" /\ rpc' = "loop"
           /\ Len(unparsed_steps) = 0 /\ Len(next_unparsed_steps) > 0
           /\ unparsed_steps' # unparsed_steps) =>
             /\ steps_parsed > 0
             /\ Len(next_unparsed_steps) < MaxSteps
             /\ Len(unparsed_steps') = Len(next_unparsed_steps) - 1
             /\ Len(next_unparsed_steps') <= 1]_vars

\* 3 refers to 1 and 2 refers to 3: popped as 3, 2, 1, the steps 3 and 2 are
\* deferred, 2 a second time, and the third pass resolves it.
C20_Witness ==
    /\ rpc = "returned"
    /\ \A n \in Names : ~is_ref[n]
    /\ params[3] = {1} /\ params[2] = {3} /\ params[1] = {}
    /\ steps_parsed = 1
    /\ DOMAIN parsed_steps = Names

(***************************************************************************)
(* StepCache.__contains__, lines 49-58: the generic implementation through *)
(* __getitem__; an exception other than KeyError leaves it.                *)
(***************************************************************************)
GenericContains(s) ==
    LET g == CacheGet(s)
    IN  IF g.kind = "value" THEN "True"
        ELSE IF g.kind = "KeyError" THEN "False"
        ELSE g.kind

(***************************************************************************)
(* C21: for both caches, in every state between the calls Step.result      *)
(* makes, `step in cache` is true exactly when cache[step] returns a value *)
(* and false exactly when it raises KeyError; the generic __contains__     *)
(* gives the same answer as the overridden one.                            *)
(***************************************************************************)
C21_ContainsIffGetReturns ==
    \A s \in Steps :
        /\ InCache(s) <=> CacheGet(s).kind = "value"
        /\ ~InCache(s) <=> CacheGet(s).kind = "KeyError"
        /\ GenericContains(s) = IF InCache(s) THEN "True" ELSE "False"

\* The rename of line 144 failed after line 143 had filled the weak layer: no
\* metadata.json, and both contains and get answer from the weak layer.
C21_Witness ==
    /\ cache_kind = "directory"
    /\ stack = <<>> /\ status = "error"
    /\ weak[1][Fp(1)] = RunValue(1)
    /\ ~metadata[Fp(1)].exists
    /\ InCache(1)
    /\ CacheGet(1) = [kind |-> "value", value |-> RunValue(1)]

(***************************************************************************)
(* C22, as claimed: in the sequence dry_run emits, the pair (name, false)  *)
(* of a step comes after a pair for each of the step's dependencies(), and *)
(* after the walk cached_steps holds every step emitted with the flag      *)
(* false.  dry_run does not look into tuples, dependencies() does: a Step  *)
(* held in a tuple is a dependency that is never emitted.                  *)
(***************************************************************************)
C22_DependenciesEmittedFirst ==
    \A i \in 1..Len(emitted) :
        /\ emitted[i] = <<0, FALSE>> =>
              \A d \in DependenciesOf(kwargs_of_step) :
                  \E j \in 1..(i - 1) : emitted[j][1] = d
        /\ ~emitted[i][2] => emitted[i][1] \in cached_steps

\* How often name n is a key of the dict kept as the sequence q.
Occurrences(q, n) == Cardinality({i \in DOMAIN q : q[i] = n})

(***************************************************************************)
(* C23: at every test of the loop condition of step_graph_from_params      *)
(* (line 549), and when it has raised or returned, every step name of the  *)
(* configuration is in exactly one of unparsed_steps, next_unparsed_steps  *)
(* and parsed_steps, once; the "Duplicate step name" error of line 561 is  *)
(* never raised.                                                           *)
(***************************************************************************)
C23_EachNameInOneMap ==
    /\ rpc # "duplicate_error"
    /\ \A n \in Names :
          Occurrences(unparsed_steps, n) + Occurrences(next_unparsed_steps, n)
              + (IF n \in DOMAIN parsed_steps THEN 1 ELSE 0) = 1
    /\ Range(unparsed_steps) \cup Range(next_unparsed_steps) \cup DOMAIN parsed_steps
          = Names

\* Step 1 is resolved, step 2 was deferred in both passes and step 3 waits for
\* its second try: each map holds one name.
C23_Witness ==
    /\ rpc = "loop"
    /\ params[3] = {1} /\ params[2] = {3} /\ params[1] = {}
    /\ unparsed_steps = <<3>>
    /\ next_unparsed_steps = <<2>>
    /\ DOMAIN parsed_steps = {1}

====
